---- MODULE Spec2Model ----
(***************************************************************************)
(* The query store of the TA agent frontend (store/querySlice.ts), the     *)
(* polling effect and submit handler of QueryInput.tsx, and the handlers   *)
(* of QueryHistory.tsx, together with the requests they keep in flight.    *)
(***************************************************************************)
EXTENDS Integers, Sequences, FiniteSets, Bags, TLC

\* ------------------------------------------------------------------ bounds
\* jobs the backend creates in one behaviour
MaxJobs == 2
\* gateway calls the user and the poll timer start in one behaviour
MaxRequests == 3
\* rows of the history list the projection is applied to
MaxRows == 3

\* --------------------------------------------------------------- constants
\* fetchQueries({ skip: 0, limit: 20 })
Limit == 20
\* pollingQueryId === null (also falsy in `if (!pollingQueryId) return`)
NoId == 0

VARIABLES
    state,            \* the `query` slice: QueryState
    pollingQueryId,   \* QueryInput's useState<number | null>
    timers,           \* ids whose setInterval handle has not been cleared
    inflight,         \* bag of thunks whose gateway call has not settled
    srv,              \* the backend's jobs: id -> status
    sent,             \* gateway calls started by the user or the timer
    last,             \* what the latest client step did first: the action it
                      \* dispatched, or its return when it dispatched none
    searchTerm,       \* QueryHistory's useState('')
    sortBy            \* QueryHistory's useState('newest')

vars == <<state, pollingQueryId, timers, inflight, srv, sent, last, searchTerm, sortBy>>

\* the local state of QueryHistory's search box and sort menu
view == <<searchTerm, sortBy>>

JobIds == 1..MaxJobs
Terminal == {"completed", "failed"}

\* A Query of types/index.ts, reduced to the fields the store logic reads.
Query(id, status) == [id |-> id, status |-> status]
\* currentQuery === null
NoQuery == Query(NoId, "none")
\* comparisonData === null, error === null
NoData == "null"
NoError == "null"
ComparisonPayloads == {"6mo:AAPL,MSFT"}

initialState ==
    [queries |-> <<>>, currentQuery |-> NoQuery, comparisonData |-> NoData,
     total |-> 0, loading |-> FALSE, error |-> NoError]

\* ---------------------------------------------------------- list helpers
RECURSIVE FilterOut(_, _)
\* state.queries.filter(q => q.id !== id)
FilterOut(qs, id) ==
    IF qs = <<>> THEN <<>>
    ELSE IF Head(qs).id # id THEN <<Head(qs)>> \o FilterOut(Tail(qs), id)
         ELSE FilterOut(Tail(qs), id)

\* state.queries.findIndex(q => q.id === id); 0 stands for -1
FindIndex(qs, id) ==
    IF \E i \in 1..Len(qs) : qs[i].id = id
    THEN CHOOSE i \in 1..Len(qs) :
            qs[i].id = id /\ \A j \in 1..(i - 1) : qs[j].id # id
    ELSE 0

Ids(qs) == {qs[i].id : i \in 1..Len(qs)}

\* ------------------------------------------------------------- reducers
clearError(s) == [s EXCEPT !.error = NoError]

clearCurrentQuery(s) ==
    [s EXCEPT !.currentQuery = NoQuery, !.comparisonData = NoData]

\* mutant: setComparisonData that leaves currentQuery as it is
setComparisonDataKeepsFocus(s, payload) == [s EXCEPT !.comparisonData = payload]

setComparisonData(s, payload) ==
    [s EXCEPT !.comparisonData = payload, !.currentQuery = NoQuery]

createQueryPending(s) == [s EXCEPT !.loading = TRUE, !.error = NoError]

\* mutant: a fulfilled case that pushes the new query to the end and
\* leaves comparisonData as it is
createQueryFulfilledAppends(s, payload) ==
    [s EXCEPT !.loading = FALSE,
              !.currentQuery = payload,
              !.queries = s.queries \o <<payload>>]

createQueryFulfilled(s, payload) ==
    [s EXCEPT !.loading = FALSE,
              !.currentQuery = payload,
              !.comparisonData = NoData,
              !.queries = <<payload>> \o s.queries]

\* mutant: a rejected case that records the message but stays loading
createQueryRejectedStaysBusy(s, msg) == [s EXCEPT !.error = msg]

createQueryRejected(s, msg) == [s EXCEPT !.loading = FALSE, !.error = msg]

fetchQueriesPending(s) == [s EXCEPT !.loading = TRUE, !.error = NoError]

\* mutant: a fulfilled case that also drops the focused query
fetchQueriesFulfilledClearsFocus(s, list, tot) ==
    [s EXCEPT !.loading = FALSE, !.queries = list, !.total = tot,
              !.currentQuery = NoQuery]

fetchQueriesFulfilled(s, list, tot) ==
    [s EXCEPT !.loading = FALSE, !.queries = list, !.total = tot]

fetchQueriesRejected(s, msg) == [s EXCEPT !.loading = FALSE, !.error = msg]

\* mutant: a rejected case that surfaces the message like the other thunks
fetchQueryRejectedSurfaced(s, msg) == [s EXCEPT !.error = msg]

\* no case is registered for fetchQuery.pending and fetchQuery.rejected
fetchQueryPending(s) == s

fetchQueryRejected(s, msg) == s

\* mutant: a fulfilled case that inserts the payload in front of the list
fetchQueryFulfilledPrepends(s, payload) ==
    [s EXCEPT !.currentQuery = payload, !.queries = <<payload>> \o s.queries]

fetchQueryFulfilled(s, payload) ==
    LET index == FindIndex(s.queries, payload.id) IN
    [s EXCEPT !.currentQuery = payload,
              !.queries = IF index # 0 THEN [s.queries EXCEPT ![index] = payload]
                          ELSE s.queries]

\* no case is registered for deleteQuery.pending and deleteQuery.rejected
deleteQueryRejected(s, msg) == s

deleteQueryFulfilled(s, id) ==
    [s EXCEPT !.queries = FilterOut(s.queries, id), !.total = s.total - 1]

\* --------------------------------------------------------------- backend
\* The analysis backend behind queryService: a job is created pending,
\* becomes completed or failed once, and stays so; ids are assigned in
\* increasing order and a deleted job is gone.
Live(st) == st \in {"pending", "completed", "failed"}

RECURSIVE ServerRows(_, _)
\* GET /queries/: the live jobs, newest first
ServerRows(sv, n) ==
    IF n = 0 THEN <<>>
    ELSE IF Live(sv[n]) THEN <<Query(n, sv[n])>> \o ServerRows(sv, n - 1)
         ELSE ServerRows(sv, n - 1)

ServerTotal(sv) == Cardinality({i \in JobIds : Live(sv[i])})

\* params: { skip: 0, limit: 20 }
ServerPage(sv) ==
    LET rows == ServerRows(sv, MaxJobs) IN
    IF Len(rows) > Limit THEN SubSeq(rows, 1, Limit) ELSE rows

FreshIds(sv) == {i \in JobIds : sv[i] = "none" /\ \A j \in 1..(i - 1) : sv[j] # "none"}

ServerProgress(id) ==
    /\ UNCHANGED view
    /\ srv[id] = "pending"
    /\ \E st \in Terminal : srv' = [srv EXCEPT ![id] = st]
    /\ UNCHANGED <<state, pollingQueryId, timers, inflight, sent, last>>

\* --------------------------------------------------- requests in flight
\* A dispatched thunk between its pending action and its settlement.  The
\* backend evaluates the call when it is sent; the response then travels
\* for an arbitrary time, so responses are delivered in any order, and the
\* transport may fail any of them (the thunk then rejects).
Request(op, origin, id, job, list, tot) ==
    [op |-> op, origin |-> origin, id |-> id,
     job |-> job, list |-> list, total |-> tot]

\* queryService.createQuery
CreateRequest(id) ==
    Request("create", "submit", id, Query(id, "pending"), <<>>, 0)

\* queryService.getQueries(skip, limit), evaluated on backend state sv
ListRequest(origin, armId, sv) ==
    Request("fetchAll", origin, armId, NoQuery, ServerPage(sv), ServerTotal(sv))

\* queryService.getQuery(id); a job that is not live answers 404
OneRequest(origin, id, sv) ==
    Request("fetchOne", origin, id, Query(id, sv[id]), <<>>, 0)

\* queryService.deleteQuery(id); `job` keeps what the backend found
DeleteRequest(id, sv) ==
    Request("delete", "history", id, Query(id, sv[id]), <<>>, 0)

\* whether the response can be a success
Answered(m) == m.op = "fetchAll" \/ Live(m.job.status)

Send(bag, m) == bag (+) SetToBag({m})
Settle(bag, m) == bag (-) SetToBag({m})
Outstanding == BagCardinality(inflight)
CanSend == sent < MaxRequests

\* rejectWithValue(...) messages of the four thunks
CreateError == "Failed to create query"
ListError == "Failed to fetch queries"
OneError == "Failed to fetch query"
DeleteError == "Failed to delete query"

\* The action types createAsyncThunk and createSlice generate, with the
\* thunk's argument and the handler that started the thunk.
Dispatched(type, id, origin) == [type |-> type, id |-> id, origin |-> origin]

Settled(m, ok) ==
    Dispatched(CASE m.op = "create" ->
                      IF ok THEN "query/create/fulfilled" ELSE "query/create/rejected"
                 [] m.op = "fetchAll" ->
                      IF ok THEN "query/fetchAll/fulfilled" ELSE "query/fetchAll/rejected"
                 [] m.op = "fetchOne" ->
                      IF ok THEN "query/fetchOne/fulfilled" ELSE "query/fetchOne/rejected"
                 [] m.op = "delete" ->
                      IF ok THEN "query/delete/fulfilled" ELSE "query/delete/rejected",
               m.id, m.origin)

\* ---------------------------------------------------------- QueryInput
\* mutant: the effect returns no cleanup, so the old interval keeps running
pollingEffectNoCleanup(ts, old, new) ==
    IF new = NoId THEN ts ELSE ts \cup {new}

\* useEffect(..., [pollingQueryId]): when the dependency changed, the
\* previous effect's cleanup clears its interval, then the effect body
\* starts an interval unless pollingQueryId is null.
pollingEffect(ts, old, new) ==
    IF new = old THEN ts
    ELSE LET cleaned == IF old = NoId THEN ts ELSE ts \ {old} IN
         IF new = NoId THEN cleaned ELSE cleaned \cup {new}

\* setPollingQueryId(id) together with the re-render's effect
setPollingQueryId(id) ==
    /\ pollingQueryId' = id
    /\ timers' = pollingEffect(timers, pollingQueryId, id)

\* a blank and a filled-in value of each text field
QueryTexts == {" ", "What is RSI?"}
Tickers == {"", "AAPL"}
QueryTypes == {"general", "analyze"}
\* String.prototype.trim on the inputs above
Trim(s) == IF s = " " THEN "" ELSE s

\* the checks of handleSubmit: blank text returns, and a stock analysis
\* without a ticker alerts and returns
Invalid(queryText, queryType, ticker) ==
    \/ Trim(queryText) = ""
    \/ queryType = "analyze" /\ Trim(ticker) = ""

\* mutant: handleSubmit without the ticker check (the thunk's argument then
\* falls back to ticker || 'AAPL')
handleSubmitNoTickerCheck(queryText, queryType, ticker) ==
    /\ UNCHANGED view
    /\ ~state.loading
    /\ IF Trim(queryText) = ""
       THEN /\ last' = Dispatched("QueryInput/handleSubmit/return", NoId, "submit")
            /\ UNCHANGED <<state, pollingQueryId, timers, inflight, srv, sent>>
       ELSE /\ CanSend
            /\ \E id \in FreshIds(srv) :
                 /\ srv' = [srv EXCEPT ![id] = "pending"]
                 /\ inflight' = Send(inflight, CreateRequest(id))
            /\ state' = createQueryPending(state)
            /\ sent' = sent + 1
            /\ last' = Dispatched("query/create/pending", NoId, "submit")
            /\ UNCHANGED <<pollingQueryId, timers>>

\* mutant: handleSubmit arms the poll when it dispatches createQuery
handleSubmitArmsFirst(queryText, queryType, ticker) ==
    /\ UNCHANGED view
    /\ ~state.loading
    /\ IF Invalid(queryText, queryType, ticker)
       THEN /\ last' = Dispatched("QueryInput/handleSubmit/return", NoId, "submit")
            /\ UNCHANGED <<state, pollingQueryId, timers, inflight, srv, sent>>
       ELSE /\ CanSend
            /\ \E id \in FreshIds(srv) :
                 /\ srv' = [srv EXCEPT ![id] = "pending"]
                 /\ inflight' = Send(inflight, CreateRequest(id))
                 /\ setPollingQueryId(id)
            /\ state' = createQueryPending(state)
            /\ sent' = sent + 1
            /\ last' = Dispatched("query/create/pending", NoId, "submit")

\* handleSubmit up to the first await.  The form is submitted through its
\* button, which is disabled while loading; a submit that fails the checks
\* returns before any dispatch.
handleSubmit(queryText, queryType, ticker) ==
    /\ UNCHANGED view
    /\ ~state.loading
    /\ IF Invalid(queryText, queryType, ticker)
       THEN /\ last' = Dispatched("QueryInput/handleSubmit/return", NoId, "submit")
            /\ UNCHANGED <<state, pollingQueryId, timers, inflight, srv, sent>>
       ELSE /\ CanSend
            /\ \E id \in FreshIds(srv) :
                 /\ srv' = [srv EXCEPT ![id] = "pending"]
                 /\ inflight' = Send(inflight, CreateRequest(id))
            /\ state' = createQueryPending(state)
            /\ sent' = sent + 1
            /\ last' = Dispatched("query/create/pending", NoId, "submit")
            /\ UNCHANGED <<pollingQueryId, timers>>

\* createQuery settles; on fulfilled handleSubmit goes on to
\* `await dispatch(fetchQueries(...))`
createQuerySettled(m, ok) ==
    /\ UNCHANGED view
    /\ m \in BagToSet(inflight)
    /\ last' = Settled(m, ok)
    /\ m.op = "create"
    /\ IF ok
       THEN /\ state' = fetchQueriesPending(createQueryFulfilled(state, m.job))
            /\ inflight' = Send(Settle(inflight, m),
                                ListRequest("submit", m.job.id, srv))
       ELSE /\ state' = createQueryRejected(state, CreateError)
            /\ inflight' = Settle(inflight, m)
    /\ UNCHANGED <<pollingQueryId, timers, srv, sent>>

\* fetchQueries settles; handleSubmit's continuation then arms the poll
fetchQueriesSettled(m, ok) ==
    /\ UNCHANGED view
    /\ m \in BagToSet(inflight)
    /\ last' = Settled(m, ok)
    /\ m.op = "fetchAll"
    /\ state' = IF ok THEN fetchQueriesFulfilled(state, m.list, m.total)
                ELSE fetchQueriesRejected(state, ListError)
    /\ inflight' = Settle(inflight, m)
    /\ IF m.origin = "submit"
       THEN setPollingQueryId(m.id)
       ELSE UNCHANGED <<pollingQueryId, timers>>
    /\ UNCHANGED <<srv, sent>>

\* the setInterval callback up to its await
pollInterval(id) ==
    /\ UNCHANGED view
    /\ id \in timers
    /\ CanSend
    /\ inflight' = Send(inflight, OneRequest("tick", id, srv))
    /\ state' = fetchQueryPending(state)
    /\ sent' = sent + 1
    /\ last' = Dispatched("query/fetchOne/pending", id, "tick")
    /\ UNCHANGED <<pollingQueryId, timers, srv>>

\* mutant: the callback stops polling on 'completed' only
fetchQuerySettledCompletedOnly(m, ok) ==
    /\ UNCHANGED view
    /\ m \in BagToSet(inflight)
    /\ last' = Settled(m, ok)
    /\ m.op = "fetchOne"
    /\ ok => Answered(m)
    /\ IF ok /\ m.origin = "tick" /\ m.job.status = "completed"
       THEN /\ state' = fetchQueriesPending(fetchQueryFulfilled(state, m.job))
            /\ setPollingQueryId(NoId)
            /\ inflight' = Send(Settle(inflight, m), ListRequest("poll", NoId, srv))
       ELSE /\ state' = IF ok THEN fetchQueryFulfilled(state, m.job)
                        ELSE fetchQueryRejected(state, OneError)
            /\ inflight' = Settle(inflight, m)
            /\ UNCHANGED <<pollingQueryId, timers>>
    /\ UNCHANGED <<srv, sent>>

\* mutant: the callback gives the watch up when the fetch is rejected
fetchQuerySettledStopOnError(m, ok) ==
    /\ UNCHANGED view
    /\ m \in BagToSet(inflight)
    /\ last' = Settled(m, ok)
    /\ m.op = "fetchOne"
    /\ ok => Answered(m)
    /\ IF m.origin = "tick" /\ (~ok \/ m.job.status \in Terminal)
       THEN /\ state' = IF ok
                        THEN fetchQueriesPending(fetchQueryFulfilled(state, m.job))
                        ELSE fetchQueryRejected(state, OneError)
            /\ setPollingQueryId(NoId)
            /\ inflight' = IF ok
                           THEN Send(Settle(inflight, m), ListRequest("poll", NoId, srv))
                           ELSE Settle(inflight, m)
       ELSE /\ state' = IF ok THEN fetchQueryFulfilled(state, m.job)
                        ELSE fetchQueryRejected(state, OneError)
            /\ inflight' = Settle(inflight, m)
            /\ UNCHANGED <<pollingQueryId, timers>>
    /\ UNCHANGED <<srv, sent>>

\* fetchQuery settles; a tick's callback goes on after its await
fetchQuerySettled(m, ok) ==
    /\ UNCHANGED view
    /\ m \in BagToSet(inflight)
    /\ last' = Settled(m, ok)
    /\ m.op = "fetchOne"
    /\ ok => Answered(m)
    /\ IF ok
       THEN IF m.origin = "tick" /\ m.job.status \in Terminal
            THEN /\ state' = fetchQueriesPending(fetchQueryFulfilled(state, m.job))
                 /\ setPollingQueryId(NoId)
                 /\ inflight' = Send(Settle(inflight, m),
                                     ListRequest("poll", NoId, srv))
            ELSE /\ state' = fetchQueryFulfilled(state, m.job)
                 /\ inflight' = Settle(inflight, m)
                 /\ UNCHANGED <<pollingQueryId, timers>>
       ELSE /\ state' = fetchQueryRejected(state, OneError)
            /\ inflight' = Settle(inflight, m)
            /\ UNCHANGED <<pollingQueryId, timers>>
    /\ UNCHANGED <<srv, sent>>

\* -------------------------------------------------------- QueryHistory
\* the mount effect and the refresh button
handleRefresh ==
    /\ UNCHANGED view
    /\ CanSend
    /\ inflight' = Send(inflight, ListRequest("refresh", NoId, srv))
    /\ state' = fetchQueriesPending(state)
    /\ sent' = sent + 1
    /\ last' = Dispatched("query/fetchAll/pending", NoId, "refresh")
    /\ UNCHANGED <<pollingQueryId, timers, srv>>

handleQueryClick(id) ==
    /\ UNCHANGED view
    /\ id \in Ids(state.queries)
    /\ CanSend
    /\ inflight' = Send(inflight, OneRequest("click", id, srv))
    /\ state' = fetchQueryPending(state)
    /\ sent' = sent + 1
    /\ last' = Dispatched("query/fetchOne/pending", id, "click")
    /\ UNCHANGED <<pollingQueryId, timers, srv>>

\* window.confirm, then dispatch(deleteQuery(id))
handleDelete(id, confirmed) ==
    /\ UNCHANGED view
    /\ id \in Ids(state.queries)
    /\ IF confirmed
       THEN /\ CanSend
            /\ inflight' = Send(inflight, DeleteRequest(id, srv))
            /\ srv' = IF Live(srv[id]) THEN [srv EXCEPT ![id] = "deleted"] ELSE srv
            /\ sent' = sent + 1
            /\ last' = Dispatched("query/delete/pending", id, "history")
            /\ UNCHANGED <<state, pollingQueryId, timers>>
       ELSE UNCHANGED vars

deleteQuerySettled(m, ok) ==
    /\ UNCHANGED view
    /\ m \in BagToSet(inflight)
    /\ last' = Settled(m, ok)
    /\ m.op = "delete"
    /\ ok => Answered(m)
    /\ state' = IF ok THEN deleteQueryFulfilled(state, m.id)
                ELSE deleteQueryRejected(state, DeleteError)
    /\ inflight' = Settle(inflight, m)
    /\ UNCHANGED <<pollingQueryId, timers, srv, sent>>

\* ----------------------------------------------------- focus commands
\* StockComparison.handleCompare after a successful /ai/compare
handleCompare(payload) ==
    /\ UNCHANGED view
    /\ state' = setComparisonData(state, payload)
    /\ last' = Dispatched("query/setComparisonData", NoId, "compare")
    /\ UNCHANGED <<pollingQueryId, timers, inflight, srv, sent>>

\* clearCurrentQuery is exported by the slice; no component dispatches it
dispatchClearCurrentQuery ==
    /\ UNCHANGED view
    /\ state' = clearCurrentQuery(state)
    /\ last' = Dispatched("query/clearCurrentQuery", NoId, "store")
    /\ UNCHANGED <<pollingQueryId, timers, inflight, srv, sent>>

\* ------------------------------------------------------- specification
Init ==
    /\ state = initialState
    /\ pollingQueryId = NoId
    /\ timers = {}
    /\ inflight = EmptyBag
    /\ srv = [i \in JobIds |-> "none"]
    /\ sent = 0
    /\ last = Dispatched("@@INIT", NoId, "store")
    /\ searchTerm = <<>>
    /\ sortBy = "newest"

Next ==
    \/ \E t \in QueryTexts, k \in QueryTypes, tk \in Tickers : handleSubmit(t, k, tk)
    \/ \E m \in BagToSet(inflight), ok \in BOOLEAN : createQuerySettled(m, ok)
    \/ \E m \in BagToSet(inflight), ok \in BOOLEAN : fetchQueriesSettled(m, ok)
    \/ \E id \in JobIds : pollInterval(id)
    \/ \E m \in BagToSet(inflight), ok \in BOOLEAN : fetchQuerySettled(m, ok)
    \/ handleRefresh
    \/ \E id \in JobIds : handleQueryClick(id)
    \/ \E id \in JobIds, c \in BOOLEAN : handleDelete(id, c)
    \/ \E m \in BagToSet(inflight), ok \in BOOLEAN : deleteQuerySettled(m, ok)
    \/ \E p \in ComparisonPayloads : handleCompare(p)
    \/ \E id \in JobIds : ServerProgress(id)

\* the application as its components are wired
Spec == Init /\ [][Next]_vars

\* The scheduling the runtime guarantees: the backend finishes every job,
\* every response is delivered, and a running interval keeps firing.
Fairness ==
    /\ \A id \in JobIds : WF_vars(ServerProgress(id))
    /\ \A id \in JobIds : WF_vars(pollInterval(id))
    /\ WF_vars(\E m \in BagToSet(inflight), ok \in BOOLEAN : createQuerySettled(m, ok))
    /\ WF_vars(\E m \in BagToSet(inflight), ok \in BOOLEAN : fetchQueriesSettled(m, ok))
    /\ WF_vars(\E m \in BagToSet(inflight), ok \in BOOLEAN : fetchQuerySettled(m, ok))
    /\ WF_vars(\E m \in BagToSet(inflight), ok \in BOOLEAN : deleteQuerySettled(m, ok))

\* the application under that scheduling
SpecLive == Spec /\ Fairness

\* ------------------------------------------ QueryHistory's projection
\* Texts are sequences of one-character strings.  An absent optional
\* field (undefined / null) is Undefined, which equals no text.
Undefined == <<"undefined">>
AAPL == <<"A", "A", "P", "L">>
MSFT == <<"M", "S", "F", "T">>
RowTickers == {Undefined, AAPL, MSFT}
RowText == <<"R", "S", "I">>
SearchTerms == {<<>>, <<"a", "a">>, <<"R", "S">>}
SortKeys == {"newest", "oldest", "ticker"}

\* the letters of the texts above, in collation order
UpperCase == <<"A", "F", "I", "L", "M", "P", "R", "S", "T">>
LowerCase == <<"a", "f", "i", "l", "m", "p", "r", "s", "t">>

LowerChar(c) ==
    IF \E i \in 1..Len(UpperCase) : UpperCase[i] = c
    THEN LowerCase[CHOOSE i \in 1..Len(UpperCase) : UpperCase[i] = c]
    ELSE c

\* String.prototype.toLowerCase
ToLowerCase(s) == [i \in 1..Len(s) |-> LowerChar(s[i])]

\* String.prototype.includes
Includes(s, sub) ==
    \E i \in 0..(Len(s) - Len(sub)) : SubSeq(s, i + 1, i + Len(sub)) = sub

\* field?.toLowerCase().includes(searchLower)
OptIncludes(field, searchLower) ==
    field # Undefined /\ Includes(ToLowerCase(field), searchLower)

\* position of a letter in the collation order; case is a lower-level
\* difference that the texts compared here (tickers) do not have
Rank(c) ==
    IF \E i \in 1..Len(UpperCase) : c \in {UpperCase[i], LowerCase[i]}
    THEN CHOOSE i \in 1..Len(UpperCase) : c \in {UpperCase[i], LowerCase[i]}
    ELSE 0

RECURSIVE localeCompare(_, _)
\* String.prototype.localeCompare: negative, zero or positive
localeCompare(a, b) ==
    IF a = <<>> THEN (IF b = <<>> THEN 0 ELSE -1)
    ELSE IF b = <<>> THEN 1
    ELSE IF Rank(Head(a)) < Rank(Head(b)) THEN -1
    ELSE IF Rank(Head(a)) > Rank(Head(b)) THEN 1
    ELSE localeCompare(Tail(a), Tail(b))

\* field || ''
OrEmpty(field) == IF field = Undefined THEN <<>> ELSE field

\* a Query as the list endpoint returns it; created_at is the time in
\* milliseconds that new Date(created_at).getTime() yields
HistoryRow(id, ticker, created) ==
    [id |-> id, status |-> "completed", ticker |-> ticker,
     query_text |-> RowText, created_at |-> created]

\* queries.filter(...)
filteredQueries(qs, term) ==
    LET searchLower == ToLowerCase(term) IN
    SelectSeq(qs, LAMBDA q : \/ OptIncludes(q.query_text, searchLower)
                             \/ OptIncludes(q.ticker, searchLower))

\* the comparator passed to sort
compareRows(a, b, by) ==
    CASE by = "newest" -> b.created_at - a.created_at
      [] by = "oldest" -> a.created_at - b.created_at
      [] by = "ticker" -> localeCompare(OrEmpty(a.ticker), OrEmpty(b.ticker))
      [] OTHER -> 0

RECURSIVE InsertSorted(_, _, _)
InsertSorted(s, x, by) ==
    IF s = <<>> THEN <<x>>
    ELSE IF compareRows(s[Len(s)], x, by) > 0
         THEN InsertSorted(SubSeq(s, 1, Len(s) - 1), x, by) \o <<s[Len(s)]>>
         ELSE s \o <<x>>

RECURSIVE StableSort(_, _)
\* Array.prototype.sort (stable) on a copy
StableSort(s, by) ==
    IF s = <<>> THEN <<>>
    ELSE InsertSorted(StableSort(SubSeq(s, 1, Len(s) - 1), by), s[Len(s)], by)

\* [...filteredQueries].sort(...)
sortedQueries(qs, term, by) == StableSort(filteredQueries(qs, term), by)

setSearchTerm(v) ==
    /\ searchTerm' = v
    /\ UNCHANGED <<state, pollingQueryId, timers, inflight, srv, sent, last, sortBy>>

setSortBy(v) ==
    /\ sortBy' = v
    /\ UNCHANGED <<state, pollingQueryId, timers, inflight, srv, sent, last, searchTerm>>

\* the lists the store can hold after a refresh: rows with distinct ids,
\* in any order, each with or without a ticker
RowLists ==
    UNION {{s \in [1..n -> {HistoryRow(i, tk, i) : i \in 1..MaxRows, tk \in RowTickers}] :
               \A i, j \in 1..n : i # j => s[i].id # s[j].id} : n \in 0..MaxRows}

HistoryInit ==
    /\ \E list \in RowLists :
         state = [initialState EXCEPT !.queries = list, !.total = Len(list)]
    /\ pollingQueryId = NoId
    /\ timers = {}
    /\ inflight = EmptyBag
    /\ srv = [i \in JobIds |-> "none"]
    /\ sent = 0
    /\ last = Dispatched("query/fetchAll/fulfilled", NoId, "refresh")
    /\ searchTerm = <<>>
    /\ sortBy = "newest"

HistoryNext ==
    \/ \E v \in SearchTerms : setSearchTerm(v)
    \/ \E v \in SortKeys : setSortBy(v)

\* the history panel over a fetched list
SpecHistory == HistoryInit /\ [][HistoryNext]_vars

\* the application plus the exported command that nothing dispatches
NextCommands ==
    \/ Next
    \/ dispatchClearCurrentQuery

SpecCommands == Init /\ [][NextCommands]_vars

\* =================================================================
\* Claims
\* =================================================================
Msgs == BagToSet(inflight)
IsTick(m) == m.op = "fetchOne" /\ m.origin = "tick"
Focused(s) == s.currentQuery # NoQuery
Comparing(s) == s.comparisonData # NoData
Armed == pollingQueryId # NoId

\* C1 -- display exclusivity: in every reachable state at most one of
\* currentQuery (focusedJob) and comparisonData (comparisonResult) is set.
C1_DisplayExclusivity == ~(Focused(state) /\ Comparing(state))

\* at most one interval is active, and it is the one of pollingQueryId
C2_OneTimer ==
    /\ Cardinality(timers) <= 1
    /\ timers = (IF Armed THEN {pollingQueryId} ELSE {})

\* handleSubmit's arming step leaves exactly the interval of the new job
C2_ArmSupersedes ==
    \A m \in Msgs, ok \in BOOLEAN :
        (fetchQueriesSettled(m, ok) /\ m.origin = "submit")
            => /\ timers' = {m.id}
               /\ pollingQueryId' = m.id

\* a tick is issued only for the job whose interval is the active one
C2_TickOnlyWatched ==
    \A id \in JobIds : pollInterval(id) => id = pollingQueryId /\ timers = {id}

\* C2 -- single watch: at most one polling interval is active at any time;
\* arming job B while job A is watched clears the interval of A before the
\* interval of B starts, so that exactly the watch on B is active afterwards
\* and no further tick is issued for A.
C2_SingleWatch ==
    [](C2_OneTimer) /\ [][C2_ArmSupersedes /\ C2_TickOnlyWatched]_vars

\* job 2 was armed while a tick of the watch on job 1 is still in flight
C2_Witness ==
    /\ last = Dispatched("query/fetchAll/fulfilled", 2, "submit")
    /\ pollingQueryId = 2
    /\ timers = {2}
    /\ \E m \in Msgs : IsTick(m) /\ m.id = 1

\* one step of C3
C3_Step ==
    \A m \in Msgs :
        fetchQuerySettled(m, TRUE) =>
            /\ \A i \in 1..Len(state.queries) :
                 (state.queries[i].id = m.id /\ state.queries[i].status \in Terminal)
                     => state'.queries[i].status # "pending"
            /\ (state.currentQuery.id = m.id /\ state.currentQuery.status \in Terminal)
                     => state'.currentQuery.status # "pending"

\* C3 -- terminal stability: once the row of a job in queries, or
\* currentQuery, shows completed or failed, applying a fetchOne response
\* never shows that job as pending again.
C3_TerminalStability == [][C3_Step]_vars

\* one step of C4
C4_Step ==
    \A m \in Msgs :
        (fetchQuerySettled(m, TRUE) /\ Focused(state) /\ state.currentQuery.id # m.id)
            => /\ state'.currentQuery = state.currentQuery
               /\ Len(state'.queries) = Len(state.queries)
               /\ \A i \in 1..Len(state.queries) :
                    state.queries[i].id # m.id => state'.queries[i] = state.queries[i]

\* C4 -- a fetchOne response for job X applied while another job is the
\* focused one changes only the row of X and leaves currentQuery alone.
C4_StaleFetchKeepsFocus == [][C4_Step]_vars

\* one step of C5
C5_Step ==
    \A m \in Msgs :
        (fetchQuerySettled(m, TRUE) /\ m.id \notin Ids(state.queries))
            => state' = state

\* C5 -- a fetchOne response for an id that has no row in queries changes
\* nothing in the store.
C5_UnknownIdIsNoOp == [][C5_Step]_vars

\* one step of C6
C6_Step ==
    \A m \in Msgs :
        deleteQuerySettled(m, TRUE)
            => /\ m.id \notin Ids(state'.queries)
               /\ state'.total = state.total - 1
               /\ state'.currentQuery.id # m.id

\* C6 -- a successful delete removes the row, decrements total by one and
\* leaves neither queries nor currentQuery referring to the deleted id.
C6_DeleteRemovesEverywhere == [][C6_Step]_vars

\* the history refreshes in flight that a terminal tick sent
RefreshesFromPoll(bag) ==
    LET S == {r \in BagToSet(bag) : r.op = "fetchAll" /\ r.origin = "poll"} IN
    IF S = {} THEN 0 ELSE BagCardinality([r \in S |-> bag[r]])

\* one step of C7
C7_Step ==
    \A m \in Msgs :
        (fetchQuerySettled(m, TRUE) /\ IsTick(m) /\ m.id = pollingQueryId)
            => /\ state'.currentQuery = m.job
               /\ FindIndex(state.queries, m.id) # 0
                    => state'.queries[FindIndex(state.queries, m.id)] = m.job
               /\ IF m.job.status \in Terminal
                  THEN /\ pollingQueryId' = NoId
                       /\ timers' = {}
                       /\ RefreshesFromPoll(inflight') = RefreshesFromPoll(inflight) + 1
                       /\ state'.loading
                  ELSE /\ pollingQueryId' = pollingQueryId
                       /\ timers' = timers
                       /\ m.id \in timers'
                       /\ RefreshesFromPoll(inflight') = RefreshesFromPoll(inflight)

\* C7 -- a successful tick of the watched job patches the store with the
\* fetched job; when that job is completed or failed the interval is
\* cleared, pollingQueryId becomes null and a history refresh is sent;
\* when it is pending the watch on the same id stays.
C7_TerminalTickDisarms == [][C7_Step]_vars

\* the first tick of the watch on job 1 fetched it completed
C7_Witness ==
    /\ last = Dispatched("query/fetchOne/fulfilled", 1, "tick")
    /\ sent = 2
    /\ state.currentQuery = Query(1, "completed")
    /\ pollingQueryId = NoId
    /\ timers = {}
    /\ RefreshesFromPoll(inflight) = 1

\* one step of C8
C8_Step ==
    \A m \in Msgs :
        (fetchQuerySettled(m, FALSE) /\ IsTick(m))
            => /\ pollingQueryId' = pollingQueryId
               /\ timers' = timers
               /\ inflight' = Settle(inflight, m)

\* C8 -- a rejected fetchOne of a tick never ends the watch: pollingQueryId
\* and its interval stay as they were and no refresh is sent.
C8_FailedTickKeepsWatch == [][C8_Step]_vars

\* the watched job was deleted, its tick answered 404, the watch goes on
C8_Witness ==
    /\ last = Dispatched("query/fetchOne/rejected", 1, "tick")
    /\ srv[1] = "deleted"
    /\ pollingQueryId = 1
    /\ timers = {1}

\* one step of C9
C9_Step ==
    (Armed /\ pollingQueryId' = NoId)
        => \E m \in Msgs :
             /\ fetchQuerySettled(m, TRUE)
             /\ m.id = pollingQueryId
             /\ m.job.status \in Terminal

\* C9 -- the watch on job B goes idle only when a fetch of B itself
\* returned completed or failed; a response of an earlier watch on another
\* job never ends it.
C9_OnlyOwnFetchEndsWatch == [][C9_Step]_vars

\* one step of C10
C10_Step ==
    /\ \A m \in Msgs : fetchQuerySettled(m, FALSE) => state' = state
    /\ \A id \in JobIds : (pollInterval(id) \/ handleQueryClick(id)) => state' = state

\* C10 -- neither the start nor the rejection of a fetchOne changes any
\* field of the store; in particular error and loading stay as they were.
C10_PollErrorsNotSurfaced == [][C10_Step]_vars

\* a tick was rejected while the store shows no error and is not loading
C10_Witness ==
    /\ last.type = "query/fetchOne/rejected"
    /\ last.origin = "tick"
    /\ state.error = NoError
    /\ ~state.loading

\* the submissions the claim calls rejected for validation
C11_Rejected(t, k, tk) == Trim(t) = "" \/ (k = "analyze" /\ Trim(tk) = "")

\* nothing is put in flight and the watch is left as it was
C11_NothingSent ==
    /\ sent' = sent
    /\ inflight' = inflight
    /\ srv' = srv
    /\ pollingQueryId' = pollingQueryId
    /\ timers' = timers

\* one step of C11
C11_Step ==
    \/ C11_NothingSent
    \/ ~\E t \in QueryTexts, k \in QueryTypes, tk \in Tickers :
           C11_Rejected(t, k, tk) /\ handleSubmit(t, k, tk)

\* C11 -- a submit with blank text, or of type analyze with a blank
\* ticker, sends no createQuery, does not arm the poll and sends no
\* fetchQueries: nothing is put in flight and the watch is left as it was.
C11_InvalidSubmitSendsNothing == [][C11_Step]_vars

\* a rejected submit while job 1 is watched and nothing is in flight
C11_Witness ==
    /\ last = Dispatched("QueryInput/handleSubmit/return", NoId, "submit")
    /\ pollingQueryId = 1
    /\ timers = {1}
    /\ inflight = EmptyBag

\* one step of C12
C12_Step ==
    \A t \in QueryTexts, k \in QueryTypes, tk \in Tickers :
        (C11_Rejected(t, k, tk) /\ handleSubmit(t, k, tk))
            => /\ ~state'.loading
               /\ state'.error # NoError

\* C12 -- after a submit that is rejected for validation, loading is false
\* and error holds a validation message.
C12_ValidationSetsError == [][C12_Step]_vars

\* one step of C13
C13_Step ==
    \A m \in Msgs :
        createQuerySettled(m, TRUE)
            => /\ pollingQueryId' = m.job.id
               /\ timers' = {m.job.id}

\* C13 -- on a successful submission the poll is armed for the new job
\* right after createQuery.fulfilled, before the history refresh is sent,
\* so arming does not wait for the refresh's response.
C13_ArmBeforeRefresh == [][C13_Step]_vars

\* while createQuery for a job has not settled, nothing watches that job
\* and no tick for it is in flight
C14_NoWatchBeforeInsert ==
    \A c \in Msgs :
        c.op = "create"
            => /\ pollingQueryId # c.id
               /\ c.id \notin timers
               /\ ~\E m \in Msgs : IsTick(m) /\ m.id = c.id

\* the poll is armed only by the continuation of handleSubmit's refresh
C14_ArmStep ==
    (pollingQueryId' # pollingQueryId /\ pollingQueryId' # NoId)
        => \E m \in Msgs, ok \in BOOLEAN :
             /\ fetchQueriesSettled(m, ok)
             /\ m.origin = "submit"
             /\ m.id = pollingQueryId'

\* handleSubmit's refresh is sent only by the step that applied
\* createQuery.fulfilled, which focused the job and put it first
C14_RefreshStep ==
    \A r \in BagToSet(inflight') :
        (r.op = "fetchAll" /\ r.origin = "submit"
              /\ (r \notin Msgs \/ inflight'[r] > inflight[r]))
            => \E c \in Msgs :
                 /\ createQuerySettled(c, TRUE)
                 /\ c.job.id = r.id
                 /\ state'.currentQuery = c.job
                 /\ Head(state'.queries) = c.job

\* C14 -- createQuery.fulfilled (job focused and prepended) is applied
\* strictly before the poll is armed for that job, so no tick for a job
\* exists before the job has been inserted.
C14_InsertBeforeArm ==
    [](C14_NoWatchBeforeInsert) /\ [][C14_ArmStep /\ C14_RefreshStep]_vars

\* the poll was just armed for job 1, which is focused and listed
C14_Witness ==
    /\ last = Dispatched("query/fetchAll/rejected", 1, "submit")
    /\ pollingQueryId = 1
    /\ timers = {1}
    /\ state.currentQuery.id = 1
    /\ 1 \in Ids(state.queries)

\* one step of C15
C15_Step ==
    \A m \in Msgs :
        createQuerySettled(m, FALSE)
            => /\ ~state'.loading
               /\ state'.error = CreateError
               /\ state'.queries = state.queries
               /\ state'.total = state.total
               /\ state'.currentQuery = state.currentQuery
               /\ state'.comparisonData = state.comparisonData
               /\ pollingQueryId' = pollingQueryId
               /\ timers' = timers
               /\ inflight' = Settle(inflight, m)

\* C15 -- when createQuery is rejected, loading becomes false and error
\* becomes the thunk's message; queries, total, currentQuery and
\* comparisonData are unchanged, and the watch (pollingQueryId and its
\* interval) is the same as before: nothing is armed and no refresh is sent.
C15_FailedSubmitLeavesStore == [][C15_Step]_vars

\* the submission of job 2 failed while job 1 is listed and watched
C15_Witness ==
    /\ last = Dispatched("query/create/rejected", 2, "submit")
    /\ state.error = CreateError
    /\ ~state.loading
    /\ Ids(state.queries) = {1}
    /\ pollingQueryId = 1
    /\ timers = {1}

\* one step of C16
C16_Step ==
    \A m \in Msgs :
        deleteQuerySettled(m, FALSE)
            => /\ state'.error = DeleteError
               /\ state'.queries = state.queries
               /\ state'.total = state.total
               /\ state'.currentQuery = state.currentQuery

\* C16 -- when deleteQuery is rejected, error is set to the failure
\* message, and queries, total and currentQuery are unchanged.
C16_DeleteErrorSurfaced == [][C16_Step]_vars

\* one step of C17
C17_Step ==
    \A id \in Ids(state.queries) :
        Live(srv'[id])
            => \/ id \in Ids(state'.queries)
               \/ \E m \in Msgs : m.id = id /\ deleteQuerySettled(m, TRUE)

\* C17 -- a job that is listed in queries and has not been deleted stays
\* listed in every later state; only a fulfilled deleteQuery of its id
\* removes it, whatever the order in which refresh responses are applied.
C17_OnlyDeleteRemoves == [][C17_Step]_vars

\* C18 -- in every reachable state no two entries of queries have the
\* same id.
C18_UniqueIds == Cardinality(Ids(state.queries)) = Len(state.queries)

\* C19 -- loading is true in every state in which a createQuery or a
\* fetchQueries has been dispatched and has not settled.
C19_BusyWhileOutstanding ==
    (\E m \in Msgs : m.op \in {"create", "fetchAll"}) => state.loading

\* one step of C20
C20_Step ==
    \A m \in Msgs :
        createQuerySettled(m, TRUE)
            => LET s == createQueryFulfilled(state, m.job) IN
               /\ ~s.loading
               /\ s.currentQuery = m.job
               /\ s.comparisonData = NoData
               /\ s.queries = <<m.job>> \o state.queries
               /\ s.error = state.error
               /\ s.total = state.total
               /\ state'.currentQuery = m.job
               /\ state'.comparisonData = NoData
               /\ state'.queries = <<m.job>> \o state.queries

\* C20 -- createQuery.fulfilled sets loading to false, sets currentQuery
\* to the created job, clears comparisonData and puts the job at the front
\* of queries with the previous entries following in their order; error
\* is left unchanged.
C20_SubmissionSucceeded == [][C20_Step]_vars

\* job 2 was created and stands in front of job 1
C20_Witness ==
    /\ last = Dispatched("query/create/fulfilled", 2, "submit")
    /\ state.currentQuery = Query(2, "pending")
    /\ state.comparisonData = NoData
    /\ Len(state.queries) = 2
    /\ state.queries[1] = Query(2, "pending")
    /\ state.queries[2].id = 1

\* one step of C21
C21_Step ==
    /\ \A m \in Msgs :
         fetchQueriesSettled(m, TRUE)
             => /\ state'.queries = m.list
                /\ state'.total = m.total
                /\ state'.currentQuery = state.currentQuery
                /\ state'.comparisonData = state.comparisonData
    /\ \A m \in Msgs :
         fetchQueriesSettled(m, FALSE)
             => /\ state'.queries = state.queries
                /\ state'.total = state.total
                /\ state'.currentQuery = state.currentQuery
                /\ state'.comparisonData = state.comparisonData
    /\ handleRefresh
             => /\ state'.currentQuery = state.currentQuery
                /\ state'.comparisonData = state.comparisonData

\* C21 -- a fulfilled fetchQueries replaces queries and total with the
\* fetched items and total; dispatching it, its success and its failure
\* all leave currentQuery and comparisonData as they were.
C21_RefreshKeepsFocus == [][C21_Step]_vars

\* a list fetched before a patch of job 1 was applied after it: the row
\* is the fetched one, the focused query is still the patched one
C21_Witness ==
    /\ last.type = "query/fetchAll/fulfilled"
    /\ state.currentQuery = Query(1, "completed")
    /\ state.queries = <<Query(1, "pending")>>

\* one step of C22
C22_Step ==
    \A id \in JobIds :
        handleQueryClick(id)
            => /\ inflight' = inflight
               /\ state'.currentQuery = state.queries[FindIndex(state.queries, id)]
               /\ state'.comparisonData = NoData

\* C22 -- clicking a row of the history focuses that row and clears
\* comparisonData at once, and sends no fetchQuery.
C22_SelectDoesNotFetch == [][C22_Step]_vars

\* one step of C23
C23_Step ==
    /\ \A p \in ComparisonPayloads :
         handleCompare(p)
             => /\ state' = [state EXCEPT !.comparisonData = p,
                                          !.currentQuery = NoQuery]
                /\ UNCHANGED <<pollingQueryId, timers, inflight>>
    /\ dispatchClearCurrentQuery
             => /\ state' = [state EXCEPT !.comparisonData = NoData,
                                          !.currentQuery = NoQuery]
                /\ UNCHANGED <<pollingQueryId, timers, inflight>>

\* C23 -- setComparisonData(payload) sets comparisonData and clears
\* currentQuery, clearCurrentQuery clears both; each leaves queries, total,
\* loading and error unchanged and neither arms nor disarms the poll.
C23_FocusCommandsFrame == [][C23_Step]_vars

\* the focus was cleared while job 1 is listed and watched
C23_Witness ==
    /\ last = Dispatched("query/clearCurrentQuery", NoId, "store")
    /\ ~Focused(state) /\ ~Comparing(state)
    /\ 1 \in Ids(state.queries)
    /\ pollingQueryId = 1
    /\ timers = {1}

\* one step of C24
C24_Step ==
    \A m \in Msgs :
        fetchQuerySettled(m, TRUE)
            => /\ fetchQueryFulfilled(fetchQueryFulfilled(state, m.job), m.job)
                    = fetchQueryFulfilled(state, m.job)
               /\ fetchQueryFulfilled(state', m.job) = state'

\* C24 -- fetchQuery.fulfilled is idempotent: applying the same fetched
\* job a second time leaves the store as the first application left it.
C24_PatchIdempotent == [][C24_Step]_vars

\* a fetched job 1 replaced its row and the focused query
C24_Witness ==
    /\ last.type = "query/fetchOne/fulfilled"
    /\ last.id = 1
    /\ state.currentQuery = Query(1, "completed")
    /\ Len(state.queries) = 2
    /\ state.queries[2] = Query(1, "completed")

\* one step of C25
C25_Step == (Armed /\ Armed') => pollingQueryId' >= pollingQueryId

\* C25 -- the watched id is always the id of the most recently submitted
\* job; ids being assigned in increasing order, the watch never moves from
\* a job to a job submitted before it, in whatever order the responses of
\* two outstanding submissions arrive.
C25_WatchIsLatest == [][C25_Step]_vars

HasTicker(q) == OrEmpty(q.ticker) # <<>>

\* in the by-ticker view rows with a ticker come first, in lexical order
C26_TickerOrder ==
    sortBy = "ticker"
        => LET v == sortedQueries(state.queries, searchTerm, sortBy) IN
           \A i, j \in 1..Len(v) :
               i < j => /\ HasTicker(v[j]) => HasTicker(v[i])
                        /\ (HasTicker(v[i]) /\ HasTicker(v[j]))
                              => localeCompare(v[i].ticker, v[j].ticker) <= 0

\* C26 -- the by-ticker projection orders the rows by ticker in lexical
\* order with every row that has no ticker after all rows that have one;
\* searching and sorting leave the store unchanged.
C26_TickerProjection ==
    [](C26_TickerOrder) /\ [][HistoryNext => state' = state]_vars

\* one step of C27: the step that follows a fulfilled delete of an id
C27_Step ==
    last.type = "query/delete/fulfilled"
        => /\ last.id \notin Ids(state.queries) => last.id \notin Ids(state'.queries)
           /\ state.currentQuery.id # last.id => state'.currentQuery.id # last.id

\* C27 -- once deleteQuery(id) was fulfilled, id does not come back: a
\* later step neither lists it in queries again nor makes it the focused
\* query again, whatever responses of earlier refreshes and fetches are
\* applied after the deletion.
C27_DeletedStaysGone == [][C27_Step]_vars

\* C28 -- in every reachable state total is non-negative.
C28_TotalNonNegative == state.total >= 0

\* createQuery calls that have not settled
SubmissionsOutstanding ==
    LET S == {m \in Msgs : m.op = "create"} IN
    IF S = {} THEN 0 ELSE BagCardinality([m \in S |-> inflight[m]])

\* C30 -- at most one createQuery is outstanding at any time, because the
\* submit button is disabled while loading.
C30_OneSubmission == SubmissionsOutstanding <= 1

\* the row of job id shows completed or failed
RowTerminal(id) ==
    \E i \in 1..Len(state.queries) :
        state.queries[i].id = id /\ state.queries[i].status \in Terminal

\* the watch on job id ended with its row terminal
C29_Done(id) ==
    /\ pollingQueryId = NoId
    /\ timers = {}
    /\ RowTerminal(id)

\* the cases the claim does not speak about: the job was deleted or is
\* not listed, a later submission took the watch over, or a gateway call
\* failed and its error is shown
C29_Excused(id) ==
    \/ srv[id] = "deleted"
    \/ id \notin Ids(state.queries)
    \/ pollingQueryId \notin {id, NoId}
    \/ state.error # NoError

\* the watch is on job id and no further fetchQuery can be issued
C29_Starved(id) == pollingQueryId = id /\ ~CanSend

\* C29 -- liveness of the watch: when the poll is armed for job J, J
\* becomes terminal at the backend, responses are delivered and J is not
\* deleted, then eventually the row of J shows a terminal status and the
\* watch is idle, also when responses of an earlier watch are in flight.
\* (A watch that stays armed without a fetchQuery left to issue is outside
\* the claim's premises.)
C29_WatchCompletes ==
    \A id \in JobIds :
        [](pollingQueryId = id
             => \/ <>(C29_Done(id) \/ C29_Excused(id))
                \/ <>[]C29_Starved(id))

====
